---- MODULE Spec2Model ----
(***************************************************************************)
(* HttpClient (src/http.ts): request de-duplication and cancellation on    *)
(* top of axios.  The client keeps a Map requestId -> AbortController of   *)
(* the requests it believes are in flight.  request() aborts and replaces  *)
(* the entry stored under the same requestId, awaits axios, and deletes    *)
(* the entry stored under its requestId when the call settles.            *)
(*                                                                         *)
(* JavaScript is single-threaded: the code of request() up to the await    *)
(* is one step, the code after the await (try tail or catch block) is one  *)
(* step, cancelAllPendingRequests() is one step.                           *)
(***************************************************************************)
EXTENDS Integers, Sequences, FiniteSets, TLC

\* ------------------------------------------------------------------ bounds
\* number of request() calls issued in one behaviour
MaxCalls == 3

\* ------------------------------------------------- JavaScript values used
\* a JS value is undefined, a string, or a plain object whose own keys are
\* kept in insertion order (a sequence of <<key, string>> members)
Undef == [t |-> "undefined", s |-> "", m |-> <<>>]
Str(s) == [t |-> "string", s |-> s, m |-> <<>>]
Obj(members) == [t |-> "object", s |-> "", m |-> members]

\* JSON.stringify of the members of a plain object: "k":v,"k":v in
\* insertion order
RECURSIVE StringifyMembers(_)
StringifyMembers(ms) ==
    IF ms = <<>> THEN <<>>
    ELSE <<ms[1][1], ":", ms[1][2]>>
         \o (IF Len(ms) > 1 THEN <<",">> ELSE <<>>)
         \o StringifyMembers(Tail(ms))

\* JSON.stringify of a value (a string of tokens)
StringifyValue(v) ==
    IF v.t = "string" THEN <<v.s>>
    ELSE <<"{">> \o StringifyMembers(v.m) \o <<"}">>

\* JSON.stringify({k1: v1, ...}) for the literal's fields in declared
\* order; a field whose value is undefined is omitted
RECURSIVE StringifyFields(_, _)
StringifyFields(fields, first) ==
    IF fields = <<>> THEN <<>>
    ELSE IF fields[1][2].t = "undefined"
         THEN StringifyFields(Tail(fields), first)
         ELSE (IF first THEN <<>> ELSE <<",">>)
              \o <<fields[1][1], ":">> \o StringifyValue(fields[1][2])
              \o StringifyFields(Tail(fields), FALSE)

\* a fingerprint that also serializes the headers
getRequestIdWithHeaders(config) ==
    <<"{">>
    \o StringifyFields(<< <<"method", config.method>>, <<"url", config.url>>,
                          <<"params", config.params>>, <<"data", config.data>>,
                          <<"headers", config.headers>> >>, TRUE)
    \o <<"}">>

\* private getRequestId(config)
getRequestId(config) ==
    <<"{">>
    \o StringifyFields(<< <<"method", config.method>>, <<"url", config.url>>,
                          <<"params", config.params>>, <<"data", config.data>> >>, TRUE)
    \o <<"}">>

\* ------------------------------------------------- the callers' requests
\* the optional config argument of the wrappers
NoConfig == [method |-> Undef, url |-> Undef, params |-> Undef, data |-> Undef,
             headers |-> Undef]

\* get(url, config) / post(url, data, config) / put / delete
get(url, config) == [config EXCEPT !.method = Str("GET"), !.url = Str(url)]
post(url, data, config) ==
    [config EXCEPT !.method = Str("POST"), !.url = Str(url), !.data = data]
put(url, data, config) ==
    [config EXCEPT !.method = Str("PUT"), !.url = Str(url), !.data = data]
delete(url, config) == [config EXCEPT !.method = Str("DELETE"), !.url = Str(url)]

PageSize == Obj(<< <<"page", "1">>, <<"size", "2">> >>)
SizePage == Obj(<< <<"size", "2">>, <<"page", "1">> >>)

\* the request configs the callers issue
Configs ==
    { get("/items", [NoConfig EXCEPT !.params = PageSize]),
      get("/items", [NoConfig EXCEPT !.params = PageSize,
                                     !.headers = Obj(<< <<"X-Trace", "t">> >>)]),
      get("/items", [NoConfig EXCEPT !.params = SizePage]) }

\* ------------------------------------- Map<string, AbortController>
\* A Map is its entry list in insertion order.  delete() empties the slot
\* of the entry (iteration order of the other entries is kept, a running
\* forEach does not skip), an emptied slot is invisible to has/get/size.
Deleted == [key |-> <<>>, value |-> 0]

RECURSIVE Compact(_)
Compact(es) ==
    IF es = <<>> THEN <<>>
    ELSE IF es[1] = Deleted THEN Compact(Tail(es))
         ELSE <<es[1]>> \o Compact(Tail(es))

MapHas(m, k) == \E i \in 1..Len(m) : m[i] # Deleted /\ m[i].key = k
MapGet(m, k) == (CHOOSE e \in {m[i] : i \in 1..Len(m)} : e # Deleted /\ e.key = k).value
MapDelete(m, k) ==
    [i \in 1..Len(m) |-> IF m[i] # Deleted /\ m[i].key = k THEN Deleted ELSE m[i]]
MapSet(m, k, v) ==
    IF MapHas(m, k)
    THEN [i \in 1..Len(m) |-> IF m[i] # Deleted /\ m[i].key = k
                              THEN [key |-> k, value |-> v] ELSE m[i]]
    ELSE Append(m, [key |-> k, value |-> v])
MapValues(m) == {m[i].value : i \in {j \in 1..Len(m) : m[j] # Deleted}}
MapKeys(m) == {m[i].key : i \in {j \in 1..Len(m) : m[j] # Deleted}}
MapSize(m) == Len(Compact(m))

\* ------------------------------------------------------------------ state
VARIABLES
    pendingRequests,  \* this.pendingRequests, as a compacted entry list
    calls             \* one record per request() call, in call order

vars == <<pendingRequests, calls>>

NoOutcome == [kind |-> "none", name |-> "", isCanceled |-> FALSE]

Init ==
    /\ pendingRequests = <<>>
    /\ calls = <<>>

\* ------------------------------------------------------------ the transport
\* axios settles a call whose signal was aborted by rejecting it: axios
\* itself rejects with its CanceledError, a fetch-style adapter with the
\* DOM AbortError.  A call whose signal was not aborted resolves with the
\* response or rejects with an AxiosError.
TransportCancelNames == {"CanceledError", "AbortError"}
TransportErrorNames == {"AxiosError"}

NoResult == [kind |-> "none", name |-> ""]

\* ---------------------------------------------------------------- request()
\* request() that replaces the stored entry without aborting its controller
SupersededControllersNone(m, requestId) == {}

\* request() aborting every stored controller instead of the one under
\* requestId
SupersededControllersAll(m, requestId) == MapValues(m)

\* the controller request() aborts: the one stored under requestId, if any
SupersededControllers(m, requestId) ==
    IF MapHas(m, requestId) THEN {MapGet(m, requestId)} ELSE {}

\* registration that adds the new entry without looking for an old one
RegisterRequestNoReplace(m, requestId, controller) ==
    Append(m, [key |-> requestId, value |-> controller])

\* the table after "has -> abort -> delete" followed by "set"
RegisterRequest(m, requestId, controller) ==
    MapSet(IF MapHas(m, requestId) THEN MapDelete(m, requestId) ELSE m,
           requestId, controller)

\* controller.abort() on each controller of S; aborting twice changes nothing
AbortAll(cs, S, cause) ==
    [i \in 1..Len(cs) |->
        IF i \in S /\ cs[i].abortedBy = "none"
        THEN [cs[i] EXCEPT !.abortedBy = cause] ELSE cs[i]]

\* calls of the same requestId whose transport call has not settled
Unsettled(cs, requestId) ==
    {i \in 1..Len(cs) : cs[i].state = "pending" /\ cs[i].requestId = requestId}

\* the argument of the axios call: { ...config, signal }
AxiosArgs(config, signal) ==
    [method |-> config.method, url |-> config.url, params |-> config.params,
     data |-> config.data, headers |-> config.headers, signal |-> signal]

\* request(config) up to the await: the new AbortController is identified
\* by the index of the call
Request(config) ==
    /\ Len(calls) < MaxCalls
    /\ LET requestId == getRequestId(config)
           controller == Len(calls) + 1
           stale == SupersededControllers(pendingRequests, requestId)
       IN /\ pendingRequests' =
                 Compact(RegisterRequest(pendingRequests, requestId, controller))
          /\ calls' = Append(AbortAll(calls, stale, "request"),
                             [config |-> config,
                              requestId |-> requestId,
                              sent |-> AxiosArgs(config, controller),
                              abortedBy |-> "none",
                              state |-> "pending",
                              result |-> NoResult,
                              outcome |-> NoOutcome,
                              overlap |-> Unsettled(calls, requestId)])

\* a catch block that never sets the flag
AfterAwaitNeverCanceled(result) ==
    IF result.kind = "resolve"
    THEN [kind |-> "return", name |-> "", isCanceled |-> FALSE]
    ELSE [kind |-> "throw", name |-> result.name, isCanceled |-> FALSE]

\* a catch block that flags every failure as cancelled
AfterAwaitAlwaysCanceled(result) ==
    IF result.kind = "resolve"
    THEN [kind |-> "return", name |-> "", isCanceled |-> FALSE]
    ELSE [kind |-> "throw", name |-> result.name, isCanceled |-> TRUE]

\* the code after the await: what the caller of request() gets
AfterAwait(result) ==
    IF result.kind = "resolve"
    THEN [kind |-> "return", name |-> "", isCanceled |-> FALSE]
    ELSE [kind |-> "throw", name |-> result.name,
          isCanceled |-> (result.name = "AbortError")]

\* a settlement that forgets the delete
SettleNoCleanup(m, requestId) == m

\* this.pendingRequests.delete(requestId) on both paths
SettleCleanup(m, requestId) == MapDelete(m, requestId)

Settle(i, result) ==
    /\ calls[i].state = "pending"
    /\ pendingRequests' = Compact(SettleCleanup(pendingRequests, calls[i].requestId))
    /\ calls' = [calls EXCEPT ![i].state = "done",
                              ![i].result = result,
                              ![i].outcome = AfterAwait(result)]

\* axios resolves the call
Resolve(i) ==
    /\ calls[i].abortedBy = "none"
    /\ Settle(i, [kind |-> "resolve", name |-> ""])

\* axios rejects the call
Reject(i, name) ==
    /\ IF calls[i].abortedBy = "none"
       THEN name \in TransportErrorNames
       ELSE name \in TransportCancelNames
    /\ Settle(i, [kind |-> "reject", name |-> name])

\* ------------------------------------------------ cancelAllPendingRequests()
\* Map.prototype.forEach with the callback "abort, delete": the cursor
\* walks the entry list, a deleted entry leaves its slot empty
RECURSIVE ForEachAbortDelete(_, _, _)
ForEachAbortDelete(es, i, ab) ==
    IF i > Len(es) THEN [entries |-> es, aborted |-> ab]
    ELSE IF es[i] = Deleted THEN ForEachAbortDelete(es, i + 1, ab)
         ELSE ForEachAbortDelete(MapDelete(es, es[i].key), i + 1,
                                 ab \cup {es[i].value})

RemoveAt(es, i) == SubSeq(es, 1, i - 1) \o SubSeq(es, i + 1, Len(es))

\* the same loop over an entry list that closes the gap on delete
RECURSIVE ForEachSplice(_, _, _)
ForEachSplice(es, i, ab) ==
    IF i > Len(es) THEN [entries |-> es, aborted |-> ab]
    ELSE ForEachSplice(RemoveAt(es, i), i + 1, ab \cup {es[i].value})

CancelAllSplice(m) == ForEachSplice(m, 1, {})

\* a loop that aborts every controller and deletes nothing
CancelAllAbortOnly(m) == [entries |-> m, aborted |-> MapValues(m)]

CancelAllResult(m) == ForEachAbortDelete(m, 1, {})

cancelAllPendingRequests ==
    LET r == CancelAllResult(pendingRequests)
    IN /\ pendingRequests' = Compact(r.entries)
       /\ calls' = AbortAll(calls, r.aborted, "cancelAll")

\* --------------------------------------------------------------------- spec
Next ==
    \/ \E config \in Configs : Request(config)
    \/ \E i \in 1..Len(calls) : Resolve(i)
    \/ \E i \in 1..Len(calls) : \E name \in TransportCancelNames \cup TransportErrorNames :
           Reject(i, name)
    \/ cancelAllPendingRequests

Spec == Init /\ [][Next]_vars

\* the transport settles every call it was given
SettleSome ==
    \E i \in 1..Len(calls) :
        \/ Resolve(i)
        \/ \E name \in TransportCancelNames \cup TransportErrorNames : Reject(i, name)

FairSpec == Spec /\ WF_vars(SettleSome)

TypeOK ==
    /\ Len(calls) <= MaxCalls
    /\ \A i \in 1..Len(pendingRequests) : pendingRequests[i] # Deleted

\* ------------------------------------------------------- steps, by effect
Calls == 1..Len(calls)
Entries(m) == {m[i] : i \in 1..Len(m)}
Signalled(i) == calls[i].abortedBy # "none"
InFlight(i) == calls[i].state = "pending"

\* a request() step: one more call
RequestStep == Len(calls') = Len(calls) + 1
\* the settlement step of call i
SettleStep(i) == calls[i].state = "pending" /\ calls'[i].state = "done"
\* a cancelAllPendingRequests() step: no new call, no settlement
CancelAllStep ==
    /\ Len(calls') = Len(calls)
    /\ \A i \in Calls : calls'[i].state = calls[i].state

\* ------------------------------------------------------------------ claims
\* C1: for every fingerprint at most one request is in flight with a
\* cancellation handle that has not been signalled.
C1_OneLivePerFingerprint ==
    \A i, j \in Calls :
        ( /\ calls[i].requestId = calls[j].requestId
          /\ InFlight(i) /\ InFlight(j)
          /\ ~Signalled(i) /\ ~Signalled(j) ) => i = j

\* C2: the settlement of a call removes no table entry that holds the
\* handle of a different call.
C2_SettleKeepsOtherEntries ==
    [][\A i \in Calls :
          SettleStep(i) =>
             \A e \in Entries(pendingRequests) :
                 e.value # i => e \in Entries(pendingRequests')]_vars

\* C3: a call A that was unsettled when a call B with the same fingerprint
\* was dispatched has its handle signalled, and the outcome A delivers is a
\* failure with isCanceled = true.
C3_Supersession ==
    \A b \in Calls : \A a \in calls[b].overlap :
        /\ Signalled(a)
        /\ calls[a].state = "done" =>
              calls[a].outcome.kind = "throw" /\ calls[a].outcome.isCanceled

\* C4: right after cancelAllPendingRequests() the table is empty and every
\* handle it held has been signalled.
C4_CancelAllEmptiesTable ==
    [][CancelAllStep =>
          /\ pendingRequests' = <<>>
          /\ \A c \in MapValues(pendingRequests) : calls'[c].abortedBy # "none"]_vars

C4_Witness ==
    /\ pendingRequests = <<>>
    /\ \E i, j \in Calls :
          /\ i # j
          /\ InFlight(i) /\ InFlight(j)
          /\ calls[i].abortedBy = "cancelAll" /\ calls[j].abortedBy = "cancelAll"

\* C5: cancelAllPendingRequests() leaves no in-flight request unsignalled:
\* every call in flight when it is called has its handle signalled by it.
C5_CancelAllSignalsAllInFlight ==
    [][CancelAllStep =>
          \A i \in Calls : InFlight(i) => calls'[i].abortedBy # "none"]_vars

\* C6: a request() or a settlement for fingerprint F neither signals the
\* handle of a call with another fingerprint nor adds, removes or changes
\* a table entry of another fingerprint; a handle signalled by request()
\* was superseded by a later call of its own fingerprint.
C6_NoCrossFingerprint ==
    /\ [][\A i \in 1..Len(calls') :
             ((i = Len(calls') /\ RequestStep) \/ (i \in Calls /\ SettleStep(i))) =>
                /\ \A j \in Calls :
                      calls[j].requestId # calls'[i].requestId =>
                          calls'[j].abortedBy = calls[j].abortedBy
                /\ \A e \in Entries(pendingRequests) \cup Entries(pendingRequests') :
                      e.key # calls'[i].requestId =>
                          e \in Entries(pendingRequests) \cap Entries(pendingRequests')]_vars
    /\ [](\A j \in Calls :
             calls[j].abortedBy = "request" =>
                 \E i \in Calls : i > j /\ calls[i].requestId = calls[j].requestId)

C6_Witness ==
    \E i, j \in Calls :
        /\ calls[i].requestId # calls[j].requestId
        /\ calls[i].state = "done" /\ calls[i].outcome.kind = "return"
        /\ calls[j].state = "done" /\ calls[j].outcome.kind = "return"
        /\ \E k \in Calls : calls[k].abortedBy = "request"

\* C7: a settled call has delivered one outcome of the kind the transport
\* produced (a rejection is never turned into a return), an unsettled call
\* none, and once the outcome is delivered the table does not hold the
\* call's handle.
C7_OneOutcomeAfterCleanup ==
    \A i \in Calls :
        /\ InFlight(i) => calls[i].outcome = NoOutcome
        /\ calls[i].state = "done" =>
              /\ calls[i].outcome.kind \in {"return", "throw"}
              /\ calls[i].result.kind = "resolve" <=> calls[i].outcome.kind = "return"
              /\ calls[i].result.kind = "reject" =>
                    calls[i].outcome.name = calls[i].result.name
              /\ i \notin MapValues(pendingRequests)

C7_Witness ==
    \E i, j \in Calls :
        /\ calls[i].state = "done" /\ calls[i].outcome.kind = "return"
        /\ calls[j].state = "done" /\ calls[j].outcome.kind = "throw"

\* C8: a failure of a call whose handle was never signalled is delivered
\* as the transport's error with isCanceled unset, and an outcome with
\* isCanceled = true belongs to a call whose handle was signalled by a
\* superseding request or by cancelAllPendingRequests().
C8_CanceledFlagMeansSignalled ==
    \A i \in Calls :
        calls[i].state = "done" =>
           /\ (calls[i].result.kind = "reject" /\ ~Signalled(i)) =>
                 /\ calls[i].outcome.kind = "throw"
                 /\ calls[i].outcome.name = calls[i].result.name
                 /\ ~calls[i].outcome.isCanceled
           /\ calls[i].outcome.isCanceled =>
                 calls[i].abortedBy \in {"request", "cancelAll"}

C8_Witness ==
    \E i, j \in Calls :
        /\ calls[i].state = "done" /\ calls[i].result.kind = "reject" /\ ~Signalled(i)
        /\ calls[j].state = "done" /\ calls[j].outcome.isCanceled

\* C9: the table holds at most one entry per fingerprint.
C9_OneEntryPerFingerprint ==
    \A i, j \in 1..Len(pendingRequests) :
        pendingRequests[i].key = pendingRequests[j].key => i = j

C9_Witness ==
    /\ Len(pendingRequests) = 2
    /\ \E i \in Calls :
          /\ calls[i].abortedBy = "request"
          /\ calls[i].requestId \in MapKeys(pendingRequests)

\* C10: a call that is in flight and whose handle has not been signalled
\* has its handle in the table under its fingerprint.
C10_LiveCallIsRegistered ==
    \A i \in Calls :
        (InFlight(i) /\ ~Signalled(i)) =>
            [key |-> calls[i].requestId, value |-> i] \in Entries(pendingRequests)

\* --------------------------------------------------- request descriptors
\* two JS values are the same mapping: equal, or objects with the same
\* members whatever their insertion order
SameValue(v, w) ==
    /\ v.t = w.t
    /\ v.s = w.s
    /\ {v.m[k] : k \in 1..Len(v.m)} = {w.m[k] : k \in 1..Len(w.m)}

\* two configs describe the same request: method, url, params and body
SameDescriptor(c, d) ==
    /\ SameValue(c.method, d.method)
    /\ SameValue(c.url, d.url)
    /\ SameValue(c.params, d.params)
    /\ SameValue(c.data, d.data)

\* two configs with identical method, url, params and data fields
SameFingerprintFields(c, d) ==
    /\ c.method = d.method
    /\ c.url = d.url
    /\ c.params = d.params
    /\ c.data = d.data

\* C11: two requests with the same method, url, params and body, the
\* mappings compared irrespective of key insertion order, have the same
\* fingerprint, and requests that differ in one of them have different
\* fingerprints.
C11_FingerprintDeterminism ==
    \A i, j \in Calls :
        SameDescriptor(calls[i].config, calls[j].config)
            <=> calls[i].requestId = calls[j].requestId

\* the call a request() step adds
NewCall == Len(calls')

C13_DispatchIsOneStep ==
    [][RequestStep =>
          LET F == calls'[NewCall].requestId
          IN /\ MapHas(pendingRequests', F)
             /\ MapGet(pendingRequests', F) = NewCall
             /\ calls'[NewCall].state = "pending"
             /\ calls'[NewCall].result = NoResult
             /\ \A e \in Entries(pendingRequests) :
                   e.key = F => /\ calls'[e.value].abortedBy # "none"
                                /\ e.value \notin MapValues(pendingRequests')
             /\ \A i \in Calls : calls'[i].state = calls[i].state]_vars

C13_Witness ==
    \E i, j \in Calls :
        /\ i < j
        /\ calls[i].requestId = calls[j].requestId
        /\ calls[i].abortedBy = "request" /\ InFlight(i)
        /\ InFlight(j) /\ j \in MapValues(pendingRequests)

C15_TableHoldsLiveHandles ==
    \A e \in Entries(pendingRequests) :
        /\ e.value \in Calls
        /\ InFlight(e.value)
        /\ ~Signalled(e.value)

C15_Witness ==
    /\ Len(pendingRequests) >= 1
    /\ \E i, j \in Calls :
          /\ calls[i].state = "done"
          /\ InFlight(j) /\ calls[j].abortedBy = "cancelAll"

\* C16: when every issued request has settled the table is empty; hence,
\* when the transport settles every call and dispatching stops, the table
\* becomes and stays empty.
C16_NoLeak ==
    /\ []((\A i \in Calls : calls[i].state = "done") => pendingRequests = <<>>)
    /\ <>[](pendingRequests = <<>>)

C16_Witness ==
    /\ Len(calls) >= 2
    /\ \A i \in Calls : calls[i].state = "done"
    /\ \E i, j \in Calls : calls[i].requestId # calls[j].requestId
    /\ pendingRequests = <<>>
====
